---- MODULE Spec2Model ----
(***************************************************************************)
(* A model of gramex's DataHandler (src/gramex/handlers/datahandler.py)    *)
(* and of gramex.cache.open (src/gramex/cache.py).                         *)
(*                                                                         *)
(* Python values are tagged records [t, v]: t is the Python type, v the    *)
(* payload.  A string that the code parses is a sequence of one-character  *)
(* strings; a string that the code only compares whole (a dictionary key,  *)
(* a format tag, a driver name) is a TLA+ string.                          *)
(***************************************************************************)
EXTENDS Integers, Sequences, FiniteSets, TLC

VARIABLES
    drivers,      \* datahandler.drivers: driver_key -> index into handles
    handles,      \* every connection object constructed so far, in order
    pending,      \* handler instances whose get() has not run yet
    served,       \* the requests get() has finished, in order
    request,      \* the request handled last: its kwargs and its arguments
    response,     \* what get() left behind for that request
    files,        \* the file system seen by os.stat: path -> [mtime, size]
    OPEN_CACHE,   \* cache._OPEN_CACHE: key -> [data, mtime, size]
    opened        \* the last call of cache.open and what it did

vars == <<drivers, handles, pending, served, request, response,
          files, OPEN_CACHE, opened>>

(***************************************************************************)
(* Python values                                                           *)
(***************************************************************************)
None == [t |-> "None", v |-> <<>>]
PyList(s) == [t |-> "list", v |-> s]
PyStr(s) == [t |-> "str", v |-> s]
PyInt(n) == [t |-> "int", v |-> n]
PyDict(s) == [t |-> "dict", v |-> s]
PyFloat(n) == [t |-> "float", v |-> n]

\* a local variable: body(x) for x the value of v, v evaluated once
Bind(v, body(_)) == CHOOSE y \in {body(x) : x \in {v}} : TRUE

\* bool(x): None, 0, "", [] and {} are false, everything else is true
Truthy(x) ==
    CASE x.t = "None" -> FALSE
      [] x.t = "int" -> x.v # 0
      [] x.t = "float" -> x.v # 0
      [] OTHER -> Len(x.v) > 0

\* a or b
PyOr(a, b) == IF Truthy(a) THEN a ELSE b

\* d.get(key) of a mapping d (a function on the keys it holds)
DictGet(d, key) == IF key \in DOMAIN d THEN d[key] ELSE None

EmptyDict == [k \in {} |-> None]

(***************************************************************************)
(* DataHandler.initialize                                                  *)
(***************************************************************************)
delims == [agg |-> <<":">>, sort |-> <<":">>, where |-> <<>>]
nojoins == {"select", "groupby"}

\* the value initialize stores for one key whose configured value is val
\* (a list, a dict given as its (key, value) pairs in order, a str or an int)
NormalizeValue(key, val) ==
    CASE val.t = "list" -> PyList(val.v)
      [] val.t = "dict" ->
            PyList([i \in 1..Len(val.v) |->
                       IF key \in nojoins THEN val.v[i][1]
                       ELSE val.v[i][1] \o delims[key] \o val.v[i][2]])
      [] OTHER -> PyList(<<val.v>>)

\* the keys of a configured mapping that one of the isinstance tests accepts
NormalizedKeys(conf) ==
    {key \in DOMAIN conf : conf[key].t \in {"list", "dict", "str", "int"}}

\* qconfig[q] after the loop: an empty mapping is left as it is
NormalizeConf(conf) ==
    IF DOMAIN conf = {} THEN conf
    ELSE [key \in NormalizedKeys(conf) |-> NormalizeValue(key, conf[key])]

KwGet(kwargs, name, dflt) == IF name \in DOMAIN kwargs THEN kwargs[name] ELSE dflt

\* yaml.dump(kwargs): the mapping's items, keys sorted
SortedKeys == <<"default", "driver", "headers", "parameters", "query", "table", "url">>
YamlDump(kwargs) ==
    LET Has(k) == k \in DOMAIN kwargs
        ks == SelectSeq(SortedKeys, Has)
    IN  [i \in 1..Len(ks) |-> <<ks[i], kwargs[ks[i]]>>]

initialize(kwargs) ==
    [params |-> kwargs,
     driver_key |-> YamlDump(kwargs),
     qconfig |-> [query |-> NormalizeConf(KwGet(kwargs, "query", EmptyDict)),
                  default |-> NormalizeConf(KwGet(kwargs, "default", EmptyDict))]]

(***************************************************************************)
(* DataHandler.getq                                                        *)
(***************************************************************************)
\* self.get_arguments(key): the request's values of key, a list
get_arguments(args, key) == PyList(args[key])

\* getq with the request's values looked at before the query mapping
getq_RequestFirst(self, args, key, default_value) ==
    PyOr(get_arguments(args, key),
         PyOr(DictGet(self.qconfig.query, key),
              PyOr(DictGet(self.qconfig.default, key), default_value)))

getq(self, args, key, default_value) ==
    PyOr(DictGet(self.qconfig.query, key),
         PyOr(get_arguments(args, key),
              PyOr(DictGet(self.qconfig.default, key), default_value)))

(***************************************************************************)
(* Characters and strings                                                  *)
(***************************************************************************)
\* the characters the model's strings are made of, and ord(ch) of each
Chars ==
    <<"!", "(", ")", "0", "1", "2", "3", "4", "5", "6", "7", "8", "9", ":", "<", "=",
      ">", "A", "B", "O", "_", "a", "b", "c", "d", "e", "f", "g", "i", "m", "n", "o",
      "q", "s", "t", "u", "x", "~">>
Ords ==
    <<33, 40, 41, 48, 49, 50, 51, 52, 53, 54, 55, 56, 57, 58, 60, 61,
      62, 65, 66, 79, 95, 97, 98, 99, 100, 101, 102, 103, 105, 109, 110, 111,
      113, 115, 116, 117, 120, 126>>
Code == [ch \in {Chars[i] : i \in 1..Len(Chars)} |->
            Ords[CHOOSE i \in 1..Len(Chars) : Chars[i] = ch]]

Max(S) == CHOOSE x \in S : \A y \in S : y <= x
Min(S) == CHOOSE x \in S : \A y \in S : x <= y

\* the last index j >= i - 1 with s[i..j] all in the class P
RunEnd(s, i, P(_)) ==
    Max({i - 1} \cup {k \in i..Len(s) : \A m \in i..k : P(s[m])})

NoMatch == [found |-> FALSE, groups |-> <<>>]
Match(g) == [found |-> TRUE, groups |-> g]

(***************************************************************************)
(* wh_re = ([^=><~!]+)([=><~!]{1,2})([^=><~!]+), wh_re.search(where)       *)
(***************************************************************************)
IsWhOp(ch) == ch \in {"=", ">", "<", "~", "!"}
NotWhOp(ch) == ~IsWhOp(ch)

\* the match that starts at i, the first character of a run of non-operator
\* characters: the run s[i..j], then the one or two operator characters
\* s[j+1..k], then the run s[k+1..e]
WhGroups(s, i, j, k, e) ==
    IF k - j \in {1, 2} /\ e > k
    THEN Match(<<SubSeq(s, i, j), SubSeq(s, j + 1, k), SubSeq(s, k + 1, e)>>)
    ELSE NoMatch

WhMatchAt(s, i) ==
    Bind(RunEnd(s, i, NotWhOp), LAMBDA j :
        Bind(RunEnd(s, j + 1, IsWhOp), LAMBDA k :
            WhGroups(s, i, j, k, RunEnd(s, k + 1, NotWhOp))))

wh_re_search(s) ==
    Bind([i \in 1..Len(s) |-> IF NotWhOp(s[i]) THEN WhMatchAt(s, i) ELSE NoMatch],
         LAMBDA at : IF \A i \in 1..Len(s) : ~at[i].found THEN NoMatch
                     ELSE at[Min({i \in 1..Len(s) : at[i].found})])

(***************************************************************************)
(* agg_re = ([^:]+):([aA-zZ]+)\(([^:]+)\), agg_re.search(agg)              *)
(***************************************************************************)
NotColon(ch) == ch # ":"
\* [aA-zZ]: "a", the range "A" to "z", "Z"
IsAggOpChar(ch) == Code[ch] >= 65 /\ Code[ch] <= 122

\* the match that starts at i: the name s[i..j], the colon, the operator
\* s[j+2..k], the parenthesis, and the column up to the last ")" before e
AggGroups(s, i, j, k, closes) ==
    IF /\ j < Len(s)
       /\ k > j + 1
       /\ k < Len(s) /\ s[k + 1] = "("
       /\ closes # {}
    THEN Match(<<SubSeq(s, i, j), SubSeq(s, j + 2, k),
                 SubSeq(s, k + 2, Max(closes) - 1)>>)
    ELSE NoMatch

AggMatchAt(s, i) ==
    Bind(RunEnd(s, i, NotColon), LAMBDA j :
        Bind(RunEnd(s, j + 2, IsAggOpChar), LAMBDA k :
            Bind({r \in (k + 3)..RunEnd(s, k + 2, NotColon) : s[r] = ")"},
                 LAMBDA closes : AggGroups(s, i, j, k, closes))))

agg_re_search(s) ==
    Bind([i \in 1..Len(s) |-> IF NotColon(s[i]) THEN AggMatchAt(s, i) ELSE NoMatch],
         LAMBDA at : IF \A i \in 1..Len(s) : ~at[i].found THEN NoMatch
                     ELSE at[Min({i \in 1..Len(s) : at[i].found})])

\* sort.partition(':')[::2]: the text before the first colon and the text after it
partition(s) ==
    Bind({i \in 1..Len(s) : s[i] = ":"} \cup {Len(s) + 1}, LAMBDA colons :
        <<SubSeq(s, 1, Min(colons) - 1), SubSeq(s, Min(colons) + 1, Len(s))>>)

(***************************************************************************)
(* The datasource: tables of rows.  A text cell is a sequence of           *)
(* characters, an integer cell an integer, an average a fraction           *)
(* <<numerator, denominator>>.                                             *)
(***************************************************************************)
colC == <<"c">>
colN == <<"n">>

Tables ==
    [flags |-> [cols |-> <<colC, colN>>, types |-> <<"text", "int">>,
                rows |-> << <<<<"b">>, 2>>, <<<<"a">>, 1>>, <<<<"b">>, 1>>,
                            <<<<"A", "B">>, 3>>, <<<<"b">>, 2>> >>],
     other |-> [cols |-> <<colC, colN>>, types |-> <<"text", "int">>,
                rows |-> << <<<<"a">>, 5>> >>]]

Range(s) == {s[i] : i \in 1..Len(s)}

\* the first position of name in the sequence cols (0 when it is not there)
IndexOf(cols, name) ==
    IF name \in Range(cols) THEN Min({i \in 1..Len(cols) : cols[i] = name}) ELSE 0

Ok(cols, types, rows) == [error |-> "", cols |-> cols, types |-> types, rows |-> rows]
Fail(e) == [error |-> e, cols |-> <<>>, types |-> <<>>, rows |-> <<>>]

(***************************************************************************)
(* Comparison of cells, as the backends compare them                       *)
(***************************************************************************)
\* a < b for strings, by code point
LexLess(a, b) ==
    \E k \in 1..(Len(b)) :
        /\ \A m \in 1..(k - 1) : m <= Len(a) /\ a[m] = b[m]
        /\ k - 1 <= Len(a)
        /\ (k > Len(a) \/ Code[a[k]] < Code[b[k]])

ValLess(type, a, b) ==
    CASE type = "text" -> LexLess(a, b)
      [] type = "int" -> a < b
      [] type = "rat" -> a[1] * b[2] < b[1] * a[2]

\* lower(ch)
Lower(ch) == IF Code[ch] >= 65 /\ Code[ch] <= 90
             THEN CHOOSE lc \in DOMAIN Code : Code[lc] = Code[ch] + 32
             ELSE ch
LowerStr(s) == [i \in 1..Len(s) |-> Lower(s[i])]

\* hay LIKE '%' + needle + '%': needle is put into the pattern as it is, so
\* a "_" in it stands for any one character
Contains(hay, needle) ==
    \E i \in 1..(Len(hay) - Len(needle) + 1) :
        \A m \in 1..Len(needle) : needle[m] = "_" \/ hay[i + m - 1] = needle[m]

\* the rows of a sequence that pass Keep, in order
FilterRows(rows, Keep(_)) == SelectSeq(rows, Keep)

\* rows in the order of Less, rows that Less does not order staying in place
StableSort(unordered, Less(_, _)) ==
    LET Sorted(rows) ==
            LET n == Len(rows)
                rank == [i \in 1..n |->
                            Cardinality({j \in 1..n : Less(rows[j], rows[i])})
                            + Cardinality({j \in 1..(i - 1) : ~Less(rows[i], rows[j])
                                                              /\ ~Less(rows[j], rows[i])})
                            + 1]
            IN  [k \in 1..n |-> rows[CHOOSE i \in 1..n : rank[i] = k]]
    IN  Bind(unordered, Sorted)

\* r1 before r2 under the sort keys: keys[k] = [idx, type, asc]
KeysLess(keys, r1, r2) ==
    \E k \in 1..Len(keys) :
        /\ \A m \in 1..(k - 1) : r1[keys[m].idx] = r2[keys[m].idx]
        /\ IF keys[k].asc
           THEN ValLess(keys[k].type, r1[keys[k].idx], r2[keys[k].idx])
           ELSE ValLess(keys[k].type, r2[keys[k].idx], r1[keys[k].idx])

\* rows[o:l] of Python: o and l are None or integers >= 0
PySlice(rows, o, l) ==
    LET from == IF o.t = "None" THEN 0 ELSE o.v
        to == IF l.t = "None" THEN Len(rows) ELSE Min({l.v, Len(rows)})
    IN  SubSeq(rows, from + 1, to)

\* int(s) of a string of digits
RECURSIVE PyIntOf(_)
PyIntOf(s) ==
    IF Len(s) = 0 THEN 0
    ELSE 10 * PyIntOf(SubSeq(s, 1, Len(s) - 1)) + (Code[s[Len(s)]] - 48)

(***************************************************************************)
(* Aggregation, as both backends compute it                                *)
(***************************************************************************)
opMin == <<"m", "i", "n">>
opMax == <<"m", "a", "x">>
opSum == <<"s", "u", "m">>
opCount == <<"c", "o", "u", "n", "t">>
opMean == <<"m", "e", "a", "n">>
opNunique == <<"n", "u", "n", "i", "q", "u", "e">>

RECURSIVE SumSeq(_)
SumSeq(s) == IF Len(s) = 0 THEN 0 ELSE s[1] + SumSeq(Tail(s))

RECURSIVE Gcd(_, _)
Gcd(a, b) == IF b = 0 THEN a ELSE Gcd(b, a % b)

\* the value of fn over the cells vals (not empty) of a column of type type
AggValue(fn, type, vals) ==
    CASE fn = "min" -> CHOOSE x \in Range(vals) : \A y \in Range(vals) : ~ValLess(type, y, x)
      [] fn = "max" -> CHOOSE x \in Range(vals) : \A y \in Range(vals) : ~ValLess(type, x, y)
      [] fn = "sum" -> SumSeq(vals)
      [] fn = "count" -> Len(vals)
      [] fn = "count_distinct" -> Cardinality(Range(vals))
      [] fn = "avg" -> Bind(Gcd(SumSeq(vals), Len(vals)), LAMBDA g :
                            <<SumSeq(vals) \div g, Len(vals) \div g>>)

AggType(fn, type) ==
    CASE fn \in {"min", "max"} -> type
      [] fn \in {"sum", "count", "count_distinct"} -> "int"
      [] fn = "avg" -> "rat"

\* the key of a row: its cells at the positions gidx
KeyOf(r, gidx) == [k \in 1..Len(gidx) |-> r[gidx[k]]]

\* the distinct keys K in ascending order
SortedKeysOf(K, gkeys) ==
    [n \in 1..Cardinality(K) |->
        CHOOSE key \in K : Cardinality({o \in K : KeysLess(gkeys, o, key)}) + 1 = n]

\* the cells at position idx of the rows whose key is key
CellsOf(rows, gidx, key, idx) ==
    Bind(SelectSeq(rows, LAMBDA r : KeyOf(r, gidx) = key), LAMBDA ms :
        [i \in 1..Len(ms) |-> ms[i][idx]])

\* GROUP BY: one row per distinct value of the group columns (positions gidx
\* of the frame), the groups in ascending order, followed by one cell per
\* aggregate of aggs (each [fn, idx])
GroupRows(frame, gidx, aggs) ==
    Bind(SortedKeysOf({KeyOf(frame.rows[i], gidx) : i \in 1..Len(frame.rows)},
                      [k \in 1..Len(gidx) |->
                          [idx |-> k, type |-> frame.types[gidx[k]], asc |-> TRUE]]),
         LAMBDA keys :
            [n \in 1..Len(keys) |->
                keys[n] \o [a \in 1..Len(aggs) |->
                               AggValue(aggs[a].fn, frame.types[aggs[a].idx],
                                        CellsOf(frame.rows, gidx, keys[n], aggs[a].idx))]])

(***************************************************************************)
(* Predicates.  The where strings of the model's requests name text        *)
(* columns, so a predicate compares a text cell with the text val.         *)
(***************************************************************************)
sqlite == "sqlite:///flags.db"
postgresql == "postgresql://db/flags"

\* LIKE ignores the case of ASCII letters on SQLite and respects it on PostgreSQL
LikeIgnoresCase(url) == url = sqlite

opEq == <<"=">>
opEqEq == <<"=", "=">>
opGe == <<">", "=">>
opLe == <<"<", "=">>
opGt == <<">">>
opLt == <<"<">>
opNe == <<"!", "=">>
opLike == <<"~">>
opNotLike == <<"!", "~">>

\* col == val, col >= val, ... of both query builders
Compare(oper, cell, val) ==
    CASE oper \in {opEq, opEqEq} -> cell = val
      [] oper = opGe -> ~LexLess(cell, val)
      [] oper = opLe -> ~LexLess(val, cell)
      [] oper = opGt -> LexLess(val, cell)
      [] oper = opLt -> LexLess(cell, val)
      [] oper = opNe -> cell # val

\* col.ilike('%' + val + '%')
ilike(cell, val) == Contains(LowerStr(cell), LowerStr(val))

\* col.notlike('%' + val + '%'): NOT (col LIKE pattern), LIKE being the database's
notlike(cell, val, url) ==
    IF LikeIgnoresCase(url) THEN ~Contains(LowerStr(cell), LowerStr(val))
    ELSE ~Contains(cell, val)

SaOpers == {opEq, opEqEq, opGe, opLe, opGt, opLt, opNe, opLike, opNotLike}
BzOpers == {opEq, opEqEq, opGe, opLe, opGt, opLt, opNe}

\* whether a cell passes the predicate p = [col, oper, val]
SaCompare(p, cell, url) ==
    CASE p.oper = opLike -> ilike(cell, p.val)
      [] p.oper = opNotLike -> notlike(cell, p.val, url)
      [] OTHER -> Compare(p.oper, cell, p.val)

\* whether a row of the table passes the predicate p
SaHolds(table, row, p, url) == SaCompare(p, row[IndexOf(table.cols, p.col)], url)

BzHolds(table, row, p) == Compare(p.oper, row[IndexOf(table.cols, p.col)], p.val)

Pred(groups) == [col |-> groups[1], oper |-> groups[2], val |-> groups[3]]

(***************************************************************************)
(* The steps both adapters end with                                        *)
(***************************************************************************)
odrAsc == <<"a", "s", "c">>
odrDesc == <<"d", "e", "s", "c">>

\* the sort keys of the columns cols, each resolved in the frame F; Asc(i) is
\* the direction of the i-th key
ResolveKeys(cols, F, sortable, Asc(_)) ==
    IF \E i \in 1..Len(cols) : cols[i] \notin sortable \/ cols[i] \notin Range(F.cols)
    THEN [error |-> "NoSuchColumn", keys |-> <<>>]
    ELSE [error |-> "",
          keys |-> [i \in 1..Len(cols) |->
                       [idx |-> IndexOf(F.cols, cols[i]),
                        type |-> F.types[IndexOf(F.cols, cols[i])],
                        asc |-> Asc(i)]]]

\* the sort keys of the sort strings: the column of each is what precedes
\* its first colon
SortKeys(sorts, F, sortable, Asc(_)) ==
    Bind([i \in 1..Len(sorts) |-> partition(sorts[i])[1]], LAMBDA cols :
        ResolveKeys(cols, F, sortable, Asc))

OrderBy(rows, keys) ==
    LET Less(r1, r2) == KeysLess(keys, r1, r2) IN StableSort(rows, Less)

\* the columns at positions out of the frame F whose rows are rows
Project(F, rows, out) ==
    LET Columns(frame, rs, ks) ==
            Ok([k \in 1..Len(ks) |-> frame.cols[ks[k]]],
               [k \in 1..Len(ks) |-> frame.types[ks[k]]],
               [r \in 1..Len(rs) |-> [k \in 1..Len(ks) |-> rs[r][ks[k]]]])
    IN  Bind(<<F, rows, out>>, LAMBDA a : Columns(a[1], a[2], a[3]))

(***************************************************************************)
(* DataHandler.get, driver == 'sqlalchemy': the query and its result       *)
(***************************************************************************)
\* one pass of the where loop, for the match m of its string; rest is what
\* the passes after it give
SaWhere(table, m, rest) ==
    IF ~m.found THEN rest
    ELSE IF m.groups[1] \notin Range(table.cols)
         THEN [error |-> "KeyError(column)", preds |-> <<>>]
    ELSE IF rest.error # "" THEN rest
    ELSE IF m.groups[2] \in SaOpers
         THEN [error |-> "", preds |-> <<Pred(m.groups)>> \o rest.preds]
    ELSE rest

\* the where loop: the predicates appended to wheres, or the KeyError of
\* table.c[col]
RECURSIVE SaWheres(_, _, _)
SaWheres(table, ws, i) ==
    IF i > Len(ws) THEN [error |-> "", preds |-> <<>>]
    ELSE Bind(<<wh_re_search(ws[i]), SaWheres(table, ws, i + 1)>>,
              LAMBDA a : SaWhere(table, a[1], a[2]))

safuncs ==
    (opMin :> "min") @@ (opMax :> "max") @@ (opSum :> "sum") @@ (opCount :> "count")
    @@ (opMean :> "avg") @@ (opNunique :> "count")

\* one pass of the aggregate loop, for the groups name, oper, col of its
\* match; rest is what the passes after it give
SaAgg(table, name, oper, col, rest) ==
    IF oper # opNunique /\ oper \notin DOMAIN safuncs
    THEN [error |-> "KeyError(oper)", aggs |-> <<>>]
    ELSE IF col \notin Range(table.cols)
         THEN [error |-> "KeyError(column)", aggs |-> <<>>]
    ELSE IF rest.error # "" THEN rest
    ELSE [error |-> "",
          aggs |-> <<[key |-> name,
                      fn |-> IF oper = opNunique THEN "count_distinct"
                             ELSE safuncs[oper],
                      idx |-> IndexOf(table.cols, col)]>> \o rest.aggs]

\* the aggregate loop: the labelled expressions appended to aggselects, or
\* the KeyError of safuncs[oper] or of table.c[col]
RECURSIVE SaAggs(_, _, _)
SaAggs(table, as, i) ==
    IF i > Len(as) THEN [error |-> "", aggs |-> <<>>]
    ELSE Bind(<<agg_re_search(as[i]), SaAggs(table, as, i + 1)>>,
              LAMBDA a : IF ~a[1].found THEN a[2]
                         ELSE SaAgg(table, a[1].groups[1], a[1].groups[2],
                                    a[1].groups[3], a[2]))

\* the integer the database takes an offset or limit for
SaInt(x) == IF x.t = "str" THEN PyIntOf(x.v) ELSE x.v

\* query.offset(_offset).limit(_limit) applied to the ordered rows
SaOffsetLimit(rows, _offset, _limit) ==
    Bind(SubSeq(rows, (IF Truthy(_offset) THEN SaInt(_offset) ELSE 0) + 1, Len(rows)),
         LAMBDA rest : IF Truthy(_limit)
                       THEN SubSeq(rest, 1, Min({Len(rest), SaInt(_limit)}))
                       ELSE rest)

\* the aggregation path entered whenever there are aggregates
SaAggregates_AggsOnly(q) == Truthy(q.aggs)

\* if _groups and _aggs
SaAggregates(q) == Truthy(q.groups) /\ Truthy(q.aggs)

\* ORDER BY, OFFSET, LIMIT and the select list out over the frame F
SaFinish(q, F, sortable, out) ==
    Bind(IF Truthy(q.sorts)
         THEN SortKeys(q.sorts.v, F, sortable,
                       LAMBDA i : partition(q.sorts.v[i])[2] # odrDesc)
         ELSE [error |-> "", keys |-> <<>>],
         LAMBDA sk :
            IF sk.error # "" THEN Fail(sk.error)
            ELSE Project(F, SaOffsetLimit(OrderBy(F.rows, sk.keys), q.offset, q.limit),
                         out))

\* the select list of the aggregation path: the positions of aggselects kept
SaAggSelect(q, keys) ==
    IF Truthy(q.selects)
    THEN SelectSeq([k \in 1..Len(keys) |-> k], LAMBDA k : keys[k] \in Range(q.selects.v))
    ELSE [k \in 1..Len(keys) |-> k]

\* the select list of the other path: the positions of the table's columns
SaPlainSelect(q, table) ==
    IF Truthy(q.selects)
    THEN [k \in 1..Len(q.selects.v) |-> IndexOf(table.cols, q.selects.v[k])]
    ELSE [k \in 1..Len(table.cols) |-> k]

\* sa.select(aggselects).group_by(*grps) over the filtered rows: the group
\* columns gs, then the aggregates ag
SaGrouped(table, rows, gs, ag) ==
    [cols |-> gs \o [k \in 1..Len(ag) |-> ag[k].key],
     types |-> [k \in 1..Len(gs) |-> table.types[IndexOf(table.cols, gs[k])]]
               \o [k \in 1..Len(ag) |-> AggType(ag[k].fn, table.types[ag[k].idx])],
     rows |-> GroupRows([table EXCEPT !.rows = rows],
                        [k \in 1..Len(gs) |-> IndexOf(table.cols, gs[k])], ag)]

\* lines 121-143: the aggregation path
SaAggQuery(q, table, rows, gs, ag) ==
    IF \E k \in 1..Len(gs) : gs[k] \notin Range(table.cols)
    THEN Fail("KeyError(column)")
    ELSE IF ag.error # "" THEN Fail(ag.error)
    ELSE Bind(SaGrouped(table, rows, gs, ag.aggs), LAMBDA F :
            Bind(SaAggSelect(q, F.cols), LAMBDA out :
                IF Len(out) = 0 THEN Fail("EmptySelect")
                ELSE SaFinish(q, F, {F.cols[out[k]] : k \in 1..Len(out)} \cup Range(gs),
                              out)))

\* lines 145-150: the other path
SaPlainQuery(q, table, rows) ==
    IF Truthy(q.selects)
       /\ \E k \in 1..Len(q.selects.v) : q.selects.v[k] \notin Range(table.cols)
    THEN Fail("KeyError(column)")
    ELSE SaFinish(q, [table EXCEPT !.rows = rows], Range(table.cols),
                  SaPlainSelect(q, table))

\* lines 120-165, wh being what the where loop gave
SaSelect(self, q, table, wh) ==
    IF wh.error # "" THEN Fail(wh.error)
    ELSE Bind(FilterRows(table.rows,
                         LAMBDA row : \A k \in 1..Len(wh.preds) :
                                         SaHolds(table, row, wh.preds[k], self.params.url)),
              LAMBDA rows :
                 IF SaAggregates(q)
                 THEN Bind(SaAggs(table, q.aggs.v, 1), LAMBDA ag :
                          SaAggQuery(q, table, rows, q.groups.v, ag))
                 ELSE SaPlainQuery(q, table, rows))

SaQuery(self, q) ==
    IF self.params.table \notin DOMAIN Tables THEN Fail("KeyError(table)")
    ELSE Bind(IF Truthy(q.wheres) THEN SaWheres(Tables[self.params.table], q.wheres.v, 1)
              ELSE [error |-> "", preds |-> <<>>],
              LAMBDA wh : SaSelect(self, q, Tables[self.params.table], wh))

(***************************************************************************)
(* DataHandler.get, driver == 'blaze': the expression and its result       *)
(***************************************************************************)
Unbound == [col |-> <<>>, oper |-> <<>>, val |-> <<>>]

\* the where loop from its i-th string on: whr is the local whr (Unbound
\* before its first assignment), isNone whether wheres is still None, preds
\* the conjuncts of wheres.  Reading whr before any branch has assigned it
\* raises UnboundLocalError; after that, a string whose operator no branch
\* handles adds the whr of an earlier string again.
RECURSIVE BzWheres(_, _, _, _, _, _)
BzWheres(table, ws, i, whr, isNone, preds) ==
    IF i > Len(ws) THEN [error |-> "", isNone |-> isNone, preds |-> preds]
    ELSE Bind(wh_re_search(ws[i]), LAMBDA m :
            IF ~m.found THEN BzWheres(table, ws, i + 1, whr, isNone, preds)
            ELSE IF m.groups[1] \notin Range(table.cols)
                 THEN [error |-> "ValueError(column)", isNone |-> isNone, preds |-> preds]
            ELSE Bind(IF m.groups[2] \in BzOpers THEN Pred(m.groups) ELSE whr,
                      LAMBDA now :
                         IF now = Unbound
                         THEN [error |-> "UnboundLocalError", isNone |-> isNone,
                               preds |-> preds]
                         ELSE BzWheres(table, ws, i + 1, now, FALSE, Append(preds, now))))

byaggs ==
    (opMin :> "min") @@ (opMax :> "max") @@ (opSum :> "sum") @@ (opCount :> "count")
    @@ (opMean :> "avg") @@ (opNunique :> "count_distinct")

\* the aggregate loop from its i-th string on: aggs is the dict aggs, a
\* function from the names assigned so far to [fn, idx]
RECURSIVE BzAggs(_, _, _, _)
BzAggs(table, as, i, aggs) ==
    IF i > Len(as) THEN [error |-> "", aggs |-> aggs]
    ELSE Bind(agg_re_search(as[i]), LAMBDA m :
            IF ~m.found THEN BzAggs(table, as, i + 1, aggs)
            ELSE IF m.groups[2] \notin DOMAIN byaggs
                 THEN [error |-> "KeyError(oper)", aggs |-> aggs]
            ELSE IF m.groups[3] \notin Range(table.cols)
                 THEN [error |-> "ValueError(column)", aggs |-> aggs]
            ELSE BzAggs(table, as, i + 1,
                        [n \in DOMAIN aggs \cup {m.groups[1]} |->
                            IF n = m.groups[1]
                            THEN [fn |-> byaggs[m.groups[2]],
                                  idx |-> IndexOf(table.cols, m.groups[3])]
                            ELSE aggs[n]]))

\* the names of a set of strings in ascending order: bz.by's summary orders
\* its keyword arguments by name
SortedNames(S) ==
    LET rank(n) == Cardinality({o \in S : LexLess(o, n)}) + 1
    IN  [k \in 1..Cardinality(S) |-> CHOOSE n \in S : rank(n) = k]

\* lines 226-229: int() of an offset or limit that is not false
BzInt(x) == IF Truthy(x) /\ x.t = "str" THEN PyInt(PyIntOf(x.v)) ELSE x

\* lines 230-233: the absolute end index, the slice
BzSlice(rows, o, l0) ==
    Bind(IF Truthy(o) /\ Truthy(l0) THEN PyInt(l0.v + o.v) ELSE l0, LAMBDA l :
        IF Truthy(o) \/ Truthy(l) THEN PySlice(rows, o, l) ELSE rows)

BzOffsetLimit(rows, _offset, _limit) == BzSlice(rows, BzInt(_offset), BzInt(_limit))

\* if _groups and _aggs
BzAggregates(q) == Truthy(q.groups) /\ Truthy(q.aggs)

\* query[_selects]: the positions of the frame's columns
BzSelect(q, F) ==
    IF Truthy(q.selects)
    THEN [k \in 1..Len(q.selects.v) |-> IndexOf(F.cols, q.selects.v[k])]
    ELSE [k \in 1..Len(F.cols) |-> k]

\* sort, slice and the projection query[_selects] over the frame F
BzFinish(q, F) ==
    Bind(IF Truthy(q.sorts)
         THEN SortKeys(q.sorts.v, F, Range(F.cols),
                       LAMBDA i : partition(q.sorts.v[Len(q.sorts.v)])[2] # odrDesc)
         ELSE [error |-> "", keys |-> <<>>],
         LAMBDA sk :
            IF sk.error # "" THEN Fail(sk.error)
            ELSE IF Truthy(q.selects)
                    /\ \E k \in 1..Len(q.selects.v) : q.selects.v[k] \notin Range(F.cols)
                 THEN Fail("ValueError(column)")
            ELSE Project(F, BzOffsetLimit(OrderBy(F.rows, sk.keys), q.offset, q.limit),
                         BzSelect(q, F)))

\* bz.by(grps, **aggs) over the filtered rows: the group columns gs, then
\* the aggregates aggs in the order of their names
BzGrouped(table, rows, gs, aggs, names) ==
    [cols |-> gs \o names,
     types |-> [k \in 1..Len(gs) |-> table.types[IndexOf(table.cols, gs[k])]]
               \o [k \in 1..Len(names) |->
                      AggType(aggs[names[k]].fn, table.types[aggs[names[k]].idx])],
     rows |-> GroupRows([table EXCEPT !.rows = rows],
                        [k \in 1..Len(gs) |-> IndexOf(table.cols, gs[k])],
                        [k \in 1..Len(names) |-> aggs[names[k]]])]

\* lines 204-216: the aggregation path
BzAggQuery(q, table, rows, gs, ag) ==
    IF \E k \in 1..Len(gs) : gs[k] \notin Range(table.cols)
    THEN Fail("ValueError(column)")
    ELSE IF ag.error # "" THEN Fail(ag.error)
    \* bz.by(grps) with no aggregate: summary() of nothing
    ELSE IF DOMAIN ag.aggs = {} THEN Fail("TypeError(by)")
    ELSE Bind(BzGrouped(table, rows, gs, ag.aggs, SortedNames(DOMAIN ag.aggs)),
              LAMBDA F : BzFinish(q, F))

\* lines 201-239, wh being what the where loop gave
BzSelection(q, table, wh) ==
    IF wh.error # "" THEN Fail(wh.error)
    \* query[None]: None is no field, selection, projection or slice, the
    \* keys an expression of blaze understands
    ELSE IF wh.isNone THEN Fail("ValueError(query[None])")
    ELSE Bind(FilterRows(table.rows,
                         LAMBDA row : \A k \in 1..Len(wh.preds) :
                                         BzHolds(table, row, wh.preds[k])),
              LAMBDA rows :
                 IF BzAggregates(q)
                 THEN Bind(BzAggs(table, q.aggs.v, 1, EmptyDict), LAMBDA ag :
                          BzAggQuery(q, table, rows, q.groups.v, ag))
                 ELSE BzFinish(q, [table EXCEPT !.rows = rows]))

BzQuery(self, q) ==
    IF KwGet(self.params, "table", "") \notin DOMAIN Tables THEN Fail("ValueError(table)")
    ELSE Bind(IF Truthy(q.wheres)
              THEN BzWheres(Tables[self.params.table], q.wheres.v, 1, Unbound, TRUE, <<>>)
              ELSE [error |-> "", isNone |-> FALSE, preds |-> <<>>],
              LAMBDA wh : BzSelection(q, Tables[self.params.table], wh))

(***************************************************************************)
(* DataHandler.get                                                         *)
(***************************************************************************)
\* lines 77-82: the locals get() takes from getq
Locals(self, args) ==
    [selects |-> getq(self, args, "select", None),
     wheres |-> getq(self, args, "where", None),
     groups |-> getq(self, args, "groupby", None),
     aggs |-> getq(self, args, "agg", None),
     offset |-> getq(self, args, "offset", PyList(<<None>>)).v[1],
     limit |-> getq(self, args, "limit", PyList(<<None>>)).v[1],
     sorts |-> getq(self, args, "sort", None),
     formats |-> getq(self, args, "format", PyList(<<"json">>))]

\* Connect with a new engine made for every request and stored over the old one
Connect_Replace(self, drvs, hs) ==
    IF self.params.driver = "sqlalchemy"
    THEN [drivers |-> [k \in DOMAIN drvs \cup {self.driver_key} |->
                          IF k = self.driver_key THEN Len(hs) + 1 ELSE drvs[k]],
          handles |-> Append(hs, [made |-> "sa.create_engine",
                                  url |-> self.params.url]),
          conn |-> Len(hs) + 1]
    ELSE [drivers |-> drvs,
          handles |-> Append(hs, [made |-> "bz.Data", url |-> self.params.url]),
          conn |-> Len(hs) + 1]

\* Connect with the engine made on a miss used but not stored
Connect_NoStore(self, drvs, hs) ==
    IF self.params.driver = "sqlalchemy" /\ self.driver_key \in DOMAIN drvs
    THEN [drivers |-> drvs, handles |-> hs, conn |-> drvs[self.driver_key]]
    ELSE [drivers |-> drvs,
          handles |-> Append(hs, [made |-> IF self.params.driver = "sqlalchemy"
                                           THEN "sa.create_engine" ELSE "bz.Data",
                                  url |-> self.params.url]),
          conn |-> Len(hs) + 1]

\* lines 85-88 and 173-175: the registry and the list of connection objects
\* after get() has obtained its connection; conn is the index of the object
\* this request uses
Connect(self, drvs, hs) ==
    IF self.params.driver = "sqlalchemy"
    THEN IF self.driver_key \notin DOMAIN drvs
         THEN [drivers |-> [k \in DOMAIN drvs \cup {self.driver_key} |->
                               IF k = self.driver_key THEN Len(hs) + 1 ELSE drvs[k]],
               handles |-> Append(hs, [made |-> "sa.create_engine",
                                       url |-> self.params.url]),
               conn |-> Len(hs) + 1]
         ELSE [drivers |-> drvs, handles |-> hs, conn |-> drvs[self.driver_key]]
    ELSE IF self.params.driver = "blaze"
    THEN [drivers |-> drvs,
          handles |-> Append(hs, [made |-> "bz.Data", url |-> self.params.url]),
          conn |-> Len(hs) + 1]
    ELSE [drivers |-> drvs, handles |-> hs, conn |-> 0]

\* self.result, or the exception the driver's branch raises
Result(self, q) ==
    IF self.params.driver = "sqlalchemy" THEN SaQuery(self, q)
    ELSE IF self.params.driver = "blaze" THEN BzQuery(self, q)
    ELSE Fail("NotImplementedError(driver)")

\* Format taking the first known tag in the order of the request
Format_RequestOrder(_formats) ==
    LET known == SelectSeq(_formats.v, LAMBDA f : f \in {"json", "csv", "html"})
    IN  IF known = <<>> THEN "" ELSE known[1]

\* lines 245-256: the format written, "" when the else branch raises
Format(_formats) ==
    IF "json" \in Range(_formats.v) THEN "json"
    ELSE IF "csv" \in Range(_formats.v) THEN "csv"
    ELSE IF "html" \in Range(_formats.v) THEN "html"
    ELSE ""

DefaultHeaders(fmt) ==
    CASE fmt = "json" -> ("Content-Type" :> "application/json")
      [] fmt = "csv" -> ("Content-Type" :> "text/csv")
                        @@ ("Content-Disposition" :> "attachment;filename=file.csv")
      [] fmt = "html" -> ("Content-Type" :> "text/html")

NoBody == [format |-> "", cols |-> <<>>, rows |-> <<>>]
Raised(e) == [error |-> e, headers |-> EmptyDict, body |-> NoBody, written |-> FALSE]

\* lines 244-263: what get() sends for the result of its query
Respond(self, q, result) ==
    IF result.error # "" THEN Raised(result.error)
    ELSE Bind(Format(q.formats), LAMBDA fmt :
            IF fmt = "" THEN Raised("NotImplementedError(format)")
            ELSE [error |-> "",
                  headers |-> KwGet(self.params, "headers", EmptyDict) @@ DefaultHeaders(fmt),
                  body |-> [format |-> fmt, cols |-> result.cols, rows |-> result.rows],
                  written |-> TRUE])

(***************************************************************************)
(* The server: tornado makes a handler instance for each request that      *)
(* arrives (initialize), and its IOLoop runs one get() at a time, each to  *)
(* its end: get() has no yield and is no coroutine.                        *)
(***************************************************************************)
NextId == Len(served) + Cardinality(pending) + 1

Arrive(kwargs, args, max) ==
    /\ NextId <= max
    /\ pending' = pending \cup {[id |-> NextId, self |-> initialize(kwargs),
                                 args |-> args]}
    /\ UNCHANGED <<drivers, handles, served, request, response,
                   files, OPEN_CACHE, opened>>

get(p) ==
    \E q \in {Locals(p.self, p.args)} :
    \E c \in {Connect(p.self, drivers, handles)} :
    \E result \in {Result(p.self, q)} :
        /\ p \in pending
        /\ pending' = pending \ {p}
        /\ drivers' = c.drivers
        /\ handles' = c.handles
        /\ request' = [id |-> p.id, kwargs |-> p.self.params, args |-> p.args, q |-> q]
        /\ response' = Respond(p.self, q, result)
        /\ served' = Append(served, [id |-> p.id, kwargs |-> p.self.params,
                                     conn |-> c.conn,
                                     error |-> result.error,
                                     concurrent |-> {o.id : o \in pending \ {p}}])
        /\ UNCHANGED <<files, OPEN_CACHE, opened>>

(***************************************************************************)
(* Requests of the model                                                   *)
(***************************************************************************)
NoArgs == [select |-> <<>>, where |-> <<>>, groupby |-> <<>>, agg |-> <<>>,
           sort |-> <<>>, offset |-> <<>>, limit |-> <<>>, format |-> <<>>]

Kwargs(driver, url, table) == [driver |-> driver, url |-> url, table |-> table]

Init ==
    /\ drivers = EmptyDict
    /\ handles = <<>>
    /\ pending = {}
    /\ served = <<>>
    /\ request = None
    /\ response = None
    /\ files = EmptyDict
    /\ OPEN_CACHE = EmptyDict
    /\ opened = None

\* a request has been handled
Handled == request # None

(***************************************************************************)
(* SpecQ: one request, over the shapes a configured query or default       *)
(* value can take for one of the keys select, where, groupby, agg, sort    *)
(***************************************************************************)
QKeys == {"select", "where", "groupby", "agg", "sort"}

\* two values of each key, and a dict that stands for the first of them
QValue1 ==
    [select |-> colC, where |-> <<"c", "=", "a">>, groupby |-> colC,
     agg |-> <<"t", ":", "s", "u", "m", "(", "n", ")">>,
     sort |-> <<"c", ":", "d", "e", "s", "c">>]
QValue2 ==
    [select |-> colN, where |-> <<"c", ">", "a">>, groupby |-> colN,
     agg |-> <<"u", ":", "m", "a", "x", "(", "n", ")">>, sort |-> colN]
QItem ==
    [select |-> <<colC, <<>>>>, where |-> <<colC, <<"=", "a">>>>,
     groupby |-> <<colC, <<>>>>,
     agg |-> <<<<"t">>, <<"s", "u", "m", "(", "n", ")">>>>,
     sort |-> <<colC, odrDesc>>]

QRaw(key) ==
    {PyList(<<>>), PyList(<<QValue1[key]>>), PyList(<<QValue1[key], QValue2[key]>>),
     PyDict(<<>>), PyDict(<<QItem[key]>>), PyStr(QValue1[key]), None}
QConf(key) == {EmptyDict} \cup {(key :> r) : r \in QRaw(key)}
QArgs(key) == {[NoArgs EXCEPT ![key] = a] :
                  a \in {<<>>, <<QValue2[key]>>, <<QValue2[key], QValue1[key]>>}}

QRequests ==
    UNION {[kwargs : {("query" :> qc) @@ ("default" :> dc)
                      @@ Kwargs("sqlalchemy", sqlite, "flags") :
                         qc \in QConf(key), dc \in QConf(key)},
            args : QArgs(key)] : key \in QKeys}

Serve == \E p \in pending : get(p)

NextQ == \/ \E r \in QRequests : Arrive(r.kwargs, r.args, 1)
         \/ Serve
SpecQ == Init /\ [][NextQ]_vars

\* the local of get() that holds the value of a key
LocalOf(key) ==
    CASE key = "select" -> request.q.selects
      [] key = "where" -> request.q.wheres
      [] key = "groupby" -> request.q.groups
      [] key = "agg" -> request.q.aggs
      [] key = "sort" -> request.q.sorts

\* what a configured mapping gives for a key: its list; the strings of its
\* dict; its scalar, alone in a list; nothing for anything else
Configured(kwargs, which, key) ==
    DictGet(NormalizeConf(KwGet(kwargs, which, EmptyDict)), key).v

Specifies(kwargs, which, key) == key \in DOMAIN KwGet(kwargs, which, EmptyDict)

\* C1 as stated: the query value whenever the query mapping specifies the
\* key, whatever the request contains; otherwise the request's values when
\* present and non-empty; otherwise the default value; otherwise nothing.
C1_QueryAlwaysWins ==
    Handled =>
        \A key \in QKeys :
            LocalOf(key).v =
                IF Specifies(request.kwargs, "query", key)
                THEN Configured(request.kwargs, "query", key)
                ELSE IF request.args[key] # <<>> THEN request.args[key]
                ELSE Configured(request.kwargs, "default", key)

\* C1, amended: the query value whenever the query mapping gives the key a
\* non-empty value; otherwise the request's values when present and
\* non-empty; otherwise the default value; otherwise nothing.
C1_NonEmptyQueryWins ==
    Handled =>
        \A key \in QKeys :
            LocalOf(key).v =
                IF Configured(request.kwargs, "query", key) # <<>>
                THEN Configured(request.kwargs, "query", key)
                ELSE IF request.args[key] # <<>> THEN request.args[key]
                ELSE Configured(request.kwargs, "default", key)

\* a request that gives a key the query mapping also gives a value to
C1_Witness ==
    /\ Handled
    /\ \E key \in QKeys :
          /\ Configured(request.kwargs, "query", key) # <<>>
          /\ request.args[key] # <<>>
          /\ request.args[key] # Configured(request.kwargs, "query", key)
          /\ LocalOf(key).v = Configured(request.kwargs, "query", key)

(***************************************************************************)
(* SpecRegistry: several requests, of several handlers, in flight at once  *)
(***************************************************************************)
MaxRequests == 3

\* the handlers configured: two tables and two drivers of one datasource,
\* and a second handler of the same table that only sets a header
RegistryKwargs ==
    {Kwargs("sqlalchemy", sqlite, "flags"), Kwargs("sqlalchemy", sqlite, "other"),
     Kwargs("blaze", sqlite, "flags"),
     ("headers" :> ("Content-Type" :> "text/plain")) @@ Kwargs("sqlalchemy", sqlite, "flags")}

\* every handler is asked for its whole table; one of them is also sent a
\* request whose query fails (the table has no column x)
RegistryRequests ==
    [kwargs : RegistryKwargs, args : {NoArgs}]
    \cup {[kwargs |-> Kwargs("sqlalchemy", sqlite, "flags"),
           args |-> [NoArgs EXCEPT !.select = <<<<"x">>>>]]}

NextRegistry ==
    \/ \E r \in RegistryRequests : Arrive(r.kwargs, r.args, MaxRequests)
    \/ Serve
SpecRegistry == Init /\ [][NextRegistry]_vars

\* BackendConfig: driver, url, table, parameters
BackendConfig(kwargs) ==
    <<kwargs.driver, kwargs.url, kwargs.table, KwGet(kwargs, "parameters", EmptyDict)>>

DifferOnlyInTable(k1, k2) ==
    /\ k1.table # k2.table
    /\ [k1 EXCEPT !.table = ""] = [k2 EXCEPT !.table = ""]

\* C2 as stated: two requests with equal BackendConfig execute against the
\* identical connection handle, constructed once and never replaced; two
\* requests whose configs differ only in table execute against distinct
\* handles.
C2_OneHandlePerBackendConfig ==
    \A i, j \in 1..Len(served) :
        /\ BackendConfig(served[i].kwargs) = BackendConfig(served[j].kwargs)
              => served[i].conn = served[j].conn
        /\ DifferOnlyInTable(served[i].kwargs, served[j].kwargs)
              => served[i].conn # served[j].conn

\* C3 as stated: requests with the same BackendConfig that are in flight
\* together, none of them finding a handle cached when the first runs, all
\* use the one connection object constructed for that config.
C3_OneConstructionWhenConcurrent ==
    \A i, j \in 1..Len(served) :
        (/\ served[j].id \in served[i].concurrent
         /\ BackendConfig(served[i].kwargs) = BackendConfig(served[j].kwargs))
            => served[i].conn = served[j].conn

Sa(i) == served[i].kwargs.driver = "sqlalchemy"
Bz(i) == served[i].kwargs.driver = "blaze"
Engines == {h \in 1..Len(handles) : handles[h].made = "sa.create_engine"}

\* C2, amended: two sqlalchemy requests execute against the identical engine
\* exactly when their handlers' whole configuration (every kwarg: driver,
\* url, table, parameters, and also query, default, headers) is equal; that
\* engine is constructed once, on the first request with that configuration,
\* and is the one the registry still holds (never evicted or replaced),
\* also when a request's query fails; two sqlalchemy requests whose
\* configurations differ only in table execute against distinct engines.  A
\* blaze request is given a connection of its own, shared with no other
\* request.
C2_OneEnginePerKwargs ==
    /\ \A i \in 1..Len(served) :
          Sa(i) => /\ YamlDump(served[i].kwargs) \in DOMAIN drivers
                   /\ drivers[YamlDump(served[i].kwargs)] = served[i].conn
    /\ \A i, j \in 1..Len(served) :
          /\ (Sa(i) /\ Sa(j)) =>
                (served[i].kwargs = served[j].kwargs <=> served[i].conn = served[j].conn)
          /\ (Bz(i) /\ i # j) => served[i].conn # served[j].conn
    /\ {drivers[k] : k \in DOMAIN drivers} = Engines
    /\ Cardinality(DOMAIN drivers) = Cardinality(Engines)

\* three requests of one sqlalchemy handler, the first of them failing, all
\* on the one engine there is
C2_Witness ==
    /\ Len(served) = 3
    /\ \A i \in 1..3 : Sa(i) /\ served[i].kwargs = served[1].kwargs /\ served[i].conn = 1
    /\ served[1].error # "" /\ served[2].error = ""
    /\ Cardinality(Engines) = 1

\* C3, amended: sqlalchemy requests of equally configured handlers that are
\* in flight together (the registry holding nothing for them when the first
\* runs) all use one engine, and it is the only engine constructed for that
\* configuration: get() runs one request at a time from its membership test
\* to its store.  Concurrent blaze requests each construct their own
\* connection.
C3_OneEngineWhenConcurrent ==
    \A i, j \in 1..Len(served) :
        (/\ served[j].id \in served[i].concurrent
         /\ Sa(i)
         /\ served[i].kwargs = served[j].kwargs)
            => /\ served[i].conn = served[j].conn
               /\ Cardinality({h \in Engines : \E k \in 1..Len(served) :
                                  /\ served[k].conn = h
                                  /\ served[k].kwargs = served[i].kwargs}) = 1

\* two requests of one sqlalchemy handler were both waiting when the first
\* of them constructed the engine both have used
C3_Witness ==
    \E i, j \in 1..Len(served) :
        /\ i < j
        /\ served[j].id \in served[i].concurrent
        /\ Sa(i)
        /\ served[i].kwargs = served[j].kwargs
        /\ \A k \in 1..(i - 1) : served[k].kwargs # served[i].kwargs
        /\ served[i].conn = served[j].conn

(***************************************************************************)
(* gramex.cache.open                                                       *)
(***************************************************************************)
\* the names _CALLBACKS knows
CALLBACKS == {"txt", "text", "yaml", "json", "csv", "excel", "xls", "xlsx", "hdf",
              "html", "sas", "stata", "table", "template", "md", "markdown"}

\* a callback given to open: the name of a type, a function, or something
\* else; at is the address of the object
Str(name) == [t |-> "str", v |-> name, at |-> "0x1"]
Function(f) == [t |-> "function", v |-> f, at |-> "0x2"]
Other(x) == [t |-> "other", v |-> x, at |-> "0x3"]

\* id(callback)
id(callback) == callback.at

callback_is_str(callback) == callback.t = "str"
callable(callback) == callback.t = "function"

\* line 107: the cache key
CacheKey(path, callback) ==
    <<path, IF callback_is_str(callback) THEN callback.v ELSE id(callback)>>

\* Outdated without the test of the size
Outdated_MtimeOnly(cache, key, mtime, size) ==
    \/ key \notin DOMAIN cache
    \/ mtime > cache[key].mtime

\* line 108: whether open loads the file again
Outdated(cache, key, mtime, size) ==
    \/ key \notin DOMAIN cache
    \/ mtime > cache[key].mtime
    \/ size # cache[key].size

\* what a callback makes of a file: it depends on the callback and on the
\* text of the file
Parse(callback, file) == <<callback.v, file.text>>

\* lines 110-119: the exception open raises for a callback, "" when it has one
\* to call
CallbackError(callback) ==
    IF callable(callback) THEN ""
    ELSE IF callback_is_str(callback)
         THEN (IF callback.v \in CALLBACKS THEN "" ELSE "TypeError(not a known type)")
         ELSE "TypeError(must be a function)"

MaxMtime == 2
Mtimes == 0..MaxMtime
Sizes == {1, 2}
Texts == {"v1", "v2"}
Paths == {"data.yaml"}
OpenCallbacks == {Str("yaml"), Str("nope"), Function("f"), Other("5")}

\* a file is written, touched or put back from a copy: any of its time, size
\* and text may change, and its time may go back
Write(path, file) ==
    /\ files[path] # file
    /\ files' = [files EXCEPT ![path] = file]
    /\ UNCHANGED <<drivers, handles, pending, served, request, response,
                   OPEN_CACHE, opened>>

\* open(path, callback, _reload_status=True)
open(path, callback) ==
    LET stat == files[path]
        key == CacheKey(path, callback)
        reload == Outdated(OPEN_CACHE, key, stat.mtime, stat.size)
        err == IF reload THEN CallbackError(callback) ELSE ""
        stored == IF reload /\ err = ""
                  THEN [k \in DOMAIN OPEN_CACHE \cup {key} |->
                           IF k = key
                           THEN [data |-> Parse(callback, stat),
                                 mtime |-> stat.mtime, size |-> stat.size]
                           ELSE OPEN_CACHE[k]]
                  ELSE OPEN_CACHE
    IN  /\ OPEN_CACHE' = stored
        /\ opened' = [path |-> path, callback |-> callback, error |-> err,
                      had |-> key \in DOMAIN OPEN_CACHE,
                      was |-> IF key \in DOMAIN OPEN_CACHE THEN OPEN_CACHE[key]
                              ELSE [data |-> <<>>, mtime |-> 0, size |-> 0],
                      stat |-> stat,
                      called |-> reload /\ err = "",
                      result |-> IF err = "" THEN <<stored[key].data, reload>>
                                 ELSE <<>>]
        /\ UNCHANGED <<drivers, handles, pending, served, request, response, files>>

InitCache ==
    /\ drivers = EmptyDict /\ handles = <<>> /\ pending = {} /\ served = <<>>
    /\ request = None /\ response = None
    /\ files = [path \in Paths |-> [mtime |-> 1, size |-> 1, text |-> "v1"]]
    /\ OPEN_CACHE = EmptyDict
    /\ opened = None

NextCache ==
    \/ \E path \in Paths, m \in Mtimes, sz \in Sizes, tx \in Texts :
          Write(path, [mtime |-> m, size |-> sz, text |-> tx])
    \/ \E path \in Paths, cb \in OpenCallbacks : open(path, cb)
SpecCache == InitCache /\ [][NextCache]_vars

\* the last call of open returned
Opened == opened # None /\ opened.error = ""

\* C4 as stated: a call runs the callback if and only if there is no cached
\* entry for (path, callback) or the file's modification time or its size
\* differs from the values recorded at the last load; every other call
\* returns the cached result without running the callback.
C4_ReloadIffTimeOrSizeDiffers ==
    Opened =>
        /\ opened.called <=> \/ ~opened.had
                             \/ opened.stat.mtime # opened.was.mtime
                             \/ opened.stat.size # opened.was.size
        /\ ~opened.called => opened.result[1] = opened.was.data

\* C4, amended: a call runs the callback if and only if there is no cached
\* entry for (path, callback) or the file's modification time is later than
\* the one recorded at the last load or its size differs from the one
\* recorded; every other call (also one that finds an earlier modification
\* time and the same size) returns the cached result without running the
\* callback.
C4_ReloadIffLaterOrResized ==
    Opened =>
        /\ opened.called <=> \/ ~opened.had
                             \/ opened.stat.mtime > opened.was.mtime
                             \/ opened.stat.size # opened.was.size
        /\ opened.called => opened.result[1] = Parse(opened.callback, opened.stat)
        /\ ~opened.called => opened.result[1] = opened.was.data

\* a call found the file changed, with an earlier time and the same size,
\* and returned what it had cached
C4_Witness ==
    /\ Opened
    /\ opened.had
    /\ opened.stat.mtime < opened.was.mtime
    /\ opened.stat.size = opened.was.size
    /\ opened.was.data # Parse(opened.callback, opened.stat)
    /\ ~opened.called
    /\ opened.result[1] = opened.was.data

(***************************************************************************)
(* SpecFormat: one request, over the format tags it can name and the       *)
(* handlers that configure a format or override a header                   *)
(***************************************************************************)
FormatTags == {"json", "csv", "html", "xml"}
FormatLists == {<<>>} \cup {<<a>> : a \in FormatTags}
               \cup {<<a, b>> : a \in FormatTags, b \in FormatTags}

FormatKwargs ==
    {Kwargs("sqlalchemy", sqlite, "flags"), Kwargs("blaze", sqlite, "flags"),
     ("default" :> ("format" :> PyList(<<"csv">>))) @@ Kwargs("sqlalchemy", sqlite, "flags"),
     ("query" :> ("format" :> PyStr("html"))) @@ Kwargs("blaze", sqlite, "flags"),
     ("headers" :> ("Content-Type" :> "text/plain")) @@ Kwargs("sqlalchemy", sqlite, "flags")}

FormatRequests ==
    {[kwargs |-> k, args |-> [NoArgs EXCEPT !.format = f]] :
        k \in FormatKwargs, f \in FormatLists}

NextFormat == \/ \E r \in FormatRequests : Arrive(r.kwargs, r.args, 1)
              \/ Serve
SpecFormat == Init /\ [][NextFormat]_vars

\* the first of json, csv, html in a set of tags, "" when it holds none
FirstKnown(S) ==
    IF "json" \in S THEN "json" ELSE IF "csv" \in S THEN "csv"
    ELSE IF "html" \in S THEN "html" ELSE ""

\* the response is the table in format fmt, or the unsupported-format
\* failure with nothing written when fmt is ""
Serialized(fmt) ==
    IF fmt = ""
    THEN response.error = "NotImplementedError(format)" /\ ~response.written
         /\ response.body = NoBody
    ELSE response.error = "" /\ response.written /\ response.body.format = fmt

\* C5 as stated: the output format is the first of json, csv, html present
\* in the set of tags the request names, and the request fails with the
\* unsupported-format error, writing no body, when the set holds none of them.
C5_FirstOfRequestedTags ==
    Handled => Serialized(FirstKnown(Range(request.args.format)))

\* the tags get() looks at: those of the configuration's query mapping, else
\* those of the request, else those of the configuration's default mapping,
\* else json alone
EffectiveFormats ==
    IF Configured(request.kwargs, "query", "format") # <<>>
    THEN Configured(request.kwargs, "query", "format")
    ELSE IF request.args.format # <<>> THEN request.args.format
    ELSE IF Configured(request.kwargs, "default", "format") # <<>>
    THEN Configured(request.kwargs, "default", "format")
    ELSE <<"json">>

\* C5, amended: the output format is the first of json, csv, html present in
\* the effective set of tags, whatever their order (a request that names no
\* tag, under a configuration that names none, is answered in json); the
\* request fails with the unsupported-format error, writing no body, when
\* the effective set is not empty and holds none of the three.
C5_FirstOfEffectiveTags ==
    Handled => Serialized(FirstKnown(Range(EffectiveFormats)))

\* format=csv&format=json has been answered in json
C5_Witness ==
    /\ Handled
    /\ request.args.format = <<"csv", "json">>
    /\ "query" \notin DOMAIN request.kwargs
    /\ response.written /\ response.body.format = "json"

\* a request naming only an unknown tag has failed, nothing written
C5_WitnessUnsupported ==
    /\ Handled
    /\ request.args.format = <<"xml">>
    /\ response.error = "NotImplementedError(format)" /\ ~response.written

(***************************************************************************)
(* SpecSlice: one request, over the offsets and limits around the number   *)
(* of rows of the table, with and without a filter and a sort              *)
(***************************************************************************)
MaxOffset == 6

Digits == <<"0", "1", "2", "3", "4", "5", "6", "7", "8", "9">>

\* the values a request can give offset or limit: none, or one string of a digit
SliceArgs == {<<>>} \cup {<<PyStr(<<Digits[n + 1]>>)>> : n \in 0..MaxOffset}

\* both drivers, and handlers whose configuration gives a limit or an offset
\* as a list of one integer
SliceKwargs ==
    {Kwargs("sqlalchemy", sqlite, "flags"), Kwargs("blaze", sqlite, "flags"),
     ("default" :> ("limit" :> PyList(<<PyInt(0)>>))) @@ Kwargs("sqlalchemy", sqlite, "flags"),
     ("query" :> ("offset" :> PyList(<<PyInt(1)>>))) @@ Kwargs("blaze", sqlite, "flags")}

SliceRequests ==
    {[kwargs |-> k,
      args |-> [NoArgs EXCEPT !.offset = o, !.limit = l, !.where = w, !.sort = s]] :
        k \in SliceKwargs, o \in SliceArgs, l \in SliceArgs,
        w \in {<<>>, << <<"c", ">", "=", "a">> >>},
        s \in {<<>>, << <<"n", ":", "d", "e", "s", "c">> >>}}

NextSlice == \/ \E r \in SliceRequests : Arrive(r.kwargs, r.args, 1)
             \/ Serve
SpecSlice == Init /\ [][NextSlice]_vars

\* the filtered and sorted result of the request handled: that of the same
\* request without its offset and limit
Unsliced == Result(initialize(request.kwargs),
                   [request.q EXCEPT !.offset = None, !.limit = None])

\* the integer an offset or limit stands for
IntOf(x) == IF x.t = "str" THEN PyIntOf(x.v) ELSE x.v

\* rows o .. min(o + l, N) - 1 of the N rows; from o on without a limit,
\* the first l without an offset
ExactSlice(rows, offset, limit) ==
    LET o == IF offset = None THEN 0 ELSE IntOf(offset)
        to == IF limit = None THEN Len(rows)
              ELSE Min({o + IntOf(limit), Len(rows)})
    IN  SubSeq(rows, o + 1, to)

\* C6: on both adapters, for every offset o >= 0 and limit l >= 0, the rows
\* returned are exactly rows o .. min(o + l, N) - 1 of the filtered and
\* sorted result; with only an offset all rows from o, with only a limit
\* the first l rows.
C6_SliceIsExact ==
    Handled /\ Unsliced.error = "" =>
        /\ response.error = ""
        /\ response.body.rows = ExactSlice(Unsliced.rows, request.q.offset, request.q.limit)

\* limit=0 on the blaze adapter has returned every row
C6_Witness ==
    /\ Handled
    /\ request.kwargs = Kwargs("blaze", sqlite, "flags")
    /\ request.args.limit = <<PyStr(<<"0">>)>>
    /\ request.args.offset = <<>>
    /\ response.error = ""
    /\ Len(response.body.rows) = Len(Unsliced.rows)
    /\ Len(response.body.rows) > 0

\* what does hold: the slice is exact whenever the limit is not zero
C6_ExactUnlessLimitZero ==
    Handled /\ Unsliced.error = ""
    /\ (request.q.limit = None \/ IntOf(request.q.limit) # 0) =>
        /\ response.error = ""
        /\ response.body.rows = ExactSlice(Unsliced.rows, request.q.offset, request.q.limit)

(***************************************************************************)
(* SpecWhere: one request, over lists of where strings, well-formed and    *)
(* not, on both adapters and on two databases of the relational one        *)
(***************************************************************************)
MaxWheres == 2

\* c=b c!=b c>a c<=a c~b c!~B, and three strings no operator is found in:
\* cb (no operator), =b (no column), c= (no value)
WhereStrings ==
    {<<"c", "=", "b">>, <<"c", "!", "=", "b">>, <<"c", ">", "a">>,
     <<"c", "<", "=", "a">>, <<"c", "~", "b">>, <<"c", "!", "~", "B">>,
     <<"c", "b">>, <<"=", "b">>, <<"c", "=">>}

WhereLists == UNION {[1..n -> WhereStrings] : n \in 0..MaxWheres}

WhereKwargs ==
    {Kwargs("sqlalchemy", sqlite, "flags"), Kwargs("sqlalchemy", postgresql, "flags"),
     Kwargs("blaze", sqlite, "flags")}

WhereRequests ==
    {[kwargs |-> k, args |-> [NoArgs EXCEPT !.where = w]] :
        k \in WhereKwargs, w \in WhereLists}

NextWhere == \/ \E r \in WhereRequests : Arrive(r.kwargs, r.args, 1)
             \/ Serve
SpecWhere == Init /\ [][NextWhere]_vars

\* the strings of a list in which an operator is found, as predicates
WellFormed(ws) ==
    LET Found(w) == wh_re_search(w).found
        kept == SelectSeq(ws, Found)
    IN  [k \in 1..Len(kept) |-> Pred(wh_re_search(kept[k]).groups)]

\* hay contains needle, the case of letters ignored
ContainsIgnoringCase(hay, needle) ==
    \E i \in 1..(Len(hay) - Len(needle) + 1) :
        SubSeq(LowerStr(hay), i, i + Len(needle) - 1) = LowerStr(needle)

\* the meaning of a predicate: equality, ordered comparison, inequality,
\* case-insensitive substring match and its exclusion
Means(p, cell) ==
    CASE p.oper = opLike -> ContainsIgnoringCase(cell, p.val)
      [] p.oper = opNotLike -> ~ContainsIgnoringCase(cell, p.val)
      [] OTHER -> Compare(p.oper, cell, p.val)

\* the rows of the request's table that pass every well-formed predicate
Filtered(ws) ==
    LET table == Tables[request.kwargs.table]
        Pass(row) == \A k \in 1..Len(WellFormed(ws)) :
                        Means(WellFormed(ws)[k],
                              row[IndexOf(table.cols, WellFormed(ws)[k].col)])
    IN  SelectSeq(table.rows, Pass)

\* C7: on both adapters, a where string in which no operator is found is
\* dropped without failing the request, and the rows returned are those that
\* pass the AND of exactly the remaining predicates; when every string is
\* malformed the request succeeds and returns the unfiltered rows.
C7_MalformedDroppedRestAnded ==
    Handled =>
        /\ response.error = ""
        /\ response.body.rows = Filtered(request.args.where)

\* a blaze request whose where strings are all malformed has failed
C7_Witness ==
    /\ Handled
    /\ request.kwargs.driver = "blaze"
    /\ request.args.where # <<>>
    /\ WellFormed(request.args.where) = <<>>
    /\ response.error # ""

\* what does hold: the claim, for the relational adapter on SQLite
C7_HoldsOnSqlite ==
    Handled /\ request.kwargs = Kwargs("sqlalchemy", sqlite, "flags") =>
        /\ response.error = ""
        /\ response.body.rows = Filtered(request.args.where)

\* what does hold: on the blaze adapter too, when at least one string is well
\* formed and none uses ~ or !~
C7_HoldsOnBlazeWithComparisons ==
    Handled /\ request.kwargs.driver = "blaze"
    /\ WellFormed(request.args.where) # <<>>
    /\ (\A k \in 1..Len(WellFormed(request.args.where)) :
           WellFormed(request.args.where)[k].oper \in BzOpers) =>
        /\ response.error = ""
        /\ response.body.rows = Filtered(request.args.where)

(***************************************************************************)
(* SpecAgg: one request on the aggregation path (groupby=c, sort=c), over  *)
(* lists of aggregate strings, with and without a select                   *)
(***************************************************************************)
MaxAggs == 2

\* t:sum(n) u:max(n) t:nunique(n) m:mean(n) g:count(n) i:min(n), one string
\* whose operator is not in the table, x:foo(n), and one that does not match
\* the pattern, tsum(n)
AggStrings ==
    {<<"t", ":", "s", "u", "m", "(", "n", ")">>,
     <<"u", ":", "m", "a", "x", "(", "n", ")">>,
     <<"t", ":", "n", "u", "n", "i", "q", "u", "e", "(", "n", ")">>,
     <<"m", ":", "m", "e", "a", "n", "(", "n", ")">>,
     <<"g", ":", "c", "o", "u", "n", "t", "(", "n", ")">>,
     <<"i", ":", "m", "i", "n", "(", "n", ")">>,
     <<"x", ":", "f", "o", "o", "(", "n", ")">>,
     <<"t", "s", "u", "m", "(", "n", ")">>}

AggLists == UNION {[1..n -> AggStrings] : n \in 1..MaxAggs}

AggRequests ==
    {[kwargs |-> Kwargs(d, sqlite, "flags"),
      args |-> [NoArgs EXCEPT !.groupby = <<colC>>, !.sort = <<colC>>,
                              !.agg = a, !.select = sel]] :
        d \in {"sqlalchemy", "blaze"}, a \in AggLists,
        sel \in {<<>>, <<colC, <<"t">>>>}}

NextAgg == \/ \E r \in AggRequests : Arrive(r.kwargs, r.args, 1)
           \/ Serve
SpecAgg == Init /\ [][NextAgg]_vars

\* the strings of a list that match the pattern, as [name, oper, col]
ParsedAggs(as) ==
    LET Found(a) == agg_re_search(a).found
        kept == SelectSeq(as, Found)
    IN  [k \in 1..Len(kept) |->
            [name |-> agg_re_search(kept[k]).groups[1],
             oper |-> agg_re_search(kept[k]).groups[2],
             col |-> agg_re_search(kept[k]).groups[3]]]

\* the table of operators and what each computes
AggTable ==
    (opMin :> "min") @@ (opMax :> "max") @@ (opSum :> "sum") @@ (opCount :> "count")
    @@ (opMean :> "avg") @@ (opNunique :> "count_distinct")

\* op over col for each value of the group column c, the groups ascending
Aggregated(a) ==
    LET table == Tables[request.kwargs.table]
        keys == SortedNames({table.rows[r][1] : r \in 1..Len(table.rows)})
        idx == IndexOf(table.cols, a.col)
        Members(key) == LET In(row) == row[1] = key IN SelectSeq(table.rows, In)
    IN  [n \in 1..Len(keys) |->
            AggValue(AggTable[a.oper], table.types[idx],
                     [r \in 1..Len(Members(keys[n])) |-> Members(keys[n])[r][idx]])]

\* the cells of the k-th column of the response
Column(k) == [r \in 1..Len(response.body.rows) |-> response.body.rows[r][k]]

\* the response holds exactly one column labelled as a, computing a
YieldsItsColumn(a) ==
    LET ks == {k \in 1..Len(response.body.cols) : response.body.cols[k] = a.name}
    IN  /\ Cardinality(ks) = 1
        /\ \A k \in ks : Column(k) = Aggregated(a)

\* the response to a list of aggregate strings that the claim describes
AggregatesAsParsed(as) ==
    IF \E k \in 1..Len(ParsedAggs(as)) : ParsedAggs(as)[k].oper \notin DOMAIN AggTable
    THEN response.error = "KeyError(oper)"
    ELSE /\ response.error = ""
         /\ \A k \in 1..Len(ParsedAggs(as)) : YieldsItsColumn(ParsedAggs(as)[k])

\* C8: on the aggregation path of both adapters, every string name:op(col)
\* with op in the table yields exactly one output column labelled name that
\* computes op over col; a string whose op is outside the table fails the
\* request with the unknown-operator error; a string that does not match the
\* pattern is dropped.
C8_EachAggregateYieldsItsColumn ==
    Handled => AggregatesAsParsed(request.args.agg)

\* two aggregates of one name on the blaze adapter: the response has a
\* single column of that name, and it is not the sum the first string asks for
C8_Witness ==
    /\ Handled
    /\ request.kwargs.driver = "blaze"
    /\ request.args.select = <<>>
    /\ request.args.agg = <<<<"t", ":", "s", "u", "m", "(", "n", ")">>,
                            <<"t", ":", "n", "u", "n", "i", "q", "u", "e", "(", "n", ")">>>>
    /\ response.error = ""
    /\ response.body.cols = <<colC, <<"t">>>>
    /\ ~YieldsItsColumn(ParsedAggs(request.args.agg)[1])

\* the names of the parsed strings are pairwise distinct
DistinctNames(as) ==
    \A j, k \in 1..Len(ParsedAggs(as)) :
        ParsedAggs(as)[j].name = ParsedAggs(as)[k].name => j = k

\* what does hold: the claim, when the names are pairwise distinct, select is
\* empty or holds every name, and (on blaze) some string matches the pattern
C8_HoldsForDistinctSelectedNames ==
    Handled /\ DistinctNames(request.args.agg)
    /\ (request.args.select = <<>>
        \/ \A k \in 1..Len(ParsedAggs(request.args.agg)) :
              ParsedAggs(request.args.agg)[k].name \in Range(request.args.select))
    /\ (request.kwargs.driver = "blaze" => ParsedAggs(request.args.agg) # <<>>)
    => AggregatesAsParsed(request.args.agg)

(***************************************************************************)
(* SpecPlain: one request, with and without group-by columns and           *)
(* aggregates, over the other parameters of a select                       *)
(***************************************************************************)
PlainRequests ==
    {[kwargs |-> Kwargs(d, sqlite, "flags"),
      args |-> [NoArgs EXCEPT !.groupby = g, !.agg = a, !.where = w, !.select = sel,
                              !.sort = s, !.offset = o, !.limit = l]] :
        d \in {"sqlalchemy", "blaze"},
        g \in {<<>>, <<colC>>},
        a \in {<<>>, << <<"t", ":", "s", "u", "m", "(", "n", ")">> >>,
               << <<"x", ":", "f", "o", "o", "(", "n", ")">> >>},
        w \in {<<>>, << <<"c", ">", "=", "a">> >>},
        sel \in {<<>>, <<colN>>, << <<"t">> >>},
        s \in {<<>>, << <<"n", ":", "d", "e", "s", "c">> >>},
        o \in {<<>>, <<PyStr(<<"1">>)>>},
        l \in {<<>>, <<PyStr(<<"2">>)>>}}

NextPlain == \/ \E r \in PlainRequests : Arrive(r.kwargs, r.args, 1)
             \/ Serve
SpecPlain == Init /\ [][NextPlain]_vars

\* the locals of the request handled, its group-by columns and aggregates
\* taken away
WithoutAggregation == [request.q EXCEPT !.groups = None, !.aggs = None]

\* what get() sends for the request handled when it has neither group-by
\* columns nor aggregates
PlainResponse ==
    Respond(initialize(request.kwargs), WithoutAggregation,
            Result(initialize(request.kwargs), WithoutAggregation))

\* C9: on both adapters, a request with aggregates but no group-by columns,
\* or group-by columns but no aggregates, is executed as the plain select of
\* its where, select, sort, offset and limit: its response is that of the
\* same request without them, its columns are columns of the table, and it
\* never fails on an aggregate, even one naming an unknown operator.
C9_AggregationNeedsBoth ==
    Handled /\ (request.args.groupby = <<>> \/ request.args.agg = <<>>) =>
        /\ response = PlainResponse
        /\ response.error \notin {"KeyError(oper)", "TypeError(by)"}
        /\ Range(response.body.cols) \subseteq Range(Tables[request.kwargs.table].cols)

\* a request with an aggregate of an unknown operator and no group-by column
\* has been answered with the rows of the table
C9_Witness ==
    /\ Handled
    /\ request.args.groupby = <<>>
    /\ request.args.agg = << <<"x", ":", "f", "o", "o", "(", "n", ")">> >>
    /\ request.args.select = <<>> /\ request.args.where = <<>>
    /\ request.args.offset = <<>> /\ request.args.limit = <<>>
    /\ response.written
    /\ response.body.cols = Tables[request.kwargs.table].cols
    /\ Len(response.body.rows) = Len(Tables[request.kwargs.table].rows)

(***************************************************************************)
(* SpecSelect: one request on either path, over the select lists of the    *)
(* names c, n and t                                                        *)
(***************************************************************************)
MaxSelects == 2

SelectNames == {colC, colN, <<"t">>}
\* the lists of up to MaxSelects names, no name twice
SelectLists ==
    {sel \in UNION {[1..n -> SelectNames] : n \in 0..MaxSelects} :
        \A j, k \in 1..Len(sel) : sel[j] = sel[k] => j = k}

\* the non-aggregation path, and the aggregation path groupby=c&agg=t:sum(n)
SelectRequests ==
    {[kwargs |-> Kwargs(d, sqlite, "flags"),
      args |-> [NoArgs EXCEPT !.select = sel, !.sort = s,
                              !.groupby = ga[1], !.agg = ga[2]]] :
        d \in {"sqlalchemy", "blaze"}, sel \in SelectLists,
        s \in {<<>>, <<colC>>},
        ga \in {<< <<>>, <<>> >>,
                << <<colC>>, << <<"t", ":", "s", "u", "m", "(", "n", ")">> >> >>}}

NextSelect == \/ \E r \in SelectRequests : Arrive(r.kwargs, r.args, 1)
              \/ Serve
SpecSelect == Init /\ [][NextSelect]_vars

\* the columns of the backend, in its order: those of the table, or the
\* group-by columns followed by the aggregates
NaturalColumns ==
    IF request.args.groupby # <<>> /\ request.args.agg # <<>>
    THEN request.args.groupby
         \o [k \in 1..Len(ParsedAggs(request.args.agg)) |->
                ParsedAggs(request.args.agg)[k].name]
    ELSE Tables[request.kwargs.table].cols

\* C10: on both adapters and on both paths, the columns of the result are
\* exactly the names of select in the order of select when select is given,
\* and the backend's columns in its order when it is empty.
C10_ColumnsFollowSelect ==
    Handled /\ response.error = "" =>
        response.body.cols = IF request.args.select # <<>> THEN request.args.select
                             ELSE NaturalColumns

\* select=t&select=c on the aggregation path of the relational adapter has
\* been answered with the columns c, t
C10_Witness ==
    /\ Handled
    /\ request.kwargs.driver = "sqlalchemy"
    /\ request.args.groupby = <<colC>>
    /\ request.args.select = << <<"t">>, colC >>
    /\ response.error = ""
    /\ response.body.cols = << colC, <<"t">> >>

\* what does hold: the claim, except on the aggregation path of the
\* relational adapter
C10_HoldsOffSaAggregation ==
    Handled /\ response.error = ""
    /\ ~(request.kwargs.driver = "sqlalchemy" /\ request.args.groupby # <<>>) =>
        response.body.cols = IF request.args.select # <<>> THEN request.args.select
                             ELSE NaturalColumns

(***************************************************************************)
(* SpecLike: one request of the relational adapter with one filter c~val   *)
(* or c!~val, on two tables and two databases                              *)
(***************************************************************************)
LikeValues ==
    {<<"b">>, <<"B">>, <<"a">>, <<"A">>, <<"a", "b">>, <<"A", "B">>, <<"b", "a">>,
     <<"x">>, <<"_">>, <<"A", "_">>}

LikeRequests ==
    {[kwargs |-> Kwargs("sqlalchemy", url, table),
      args |-> [NoArgs EXCEPT !.where = <<colC \o oper \o val>>]] :
        url \in {sqlite, postgresql}, table \in {"flags", "other"},
        oper \in {opLike, opNotLike}, val \in LikeValues}

NextLike == \/ \E r \in LikeRequests : Arrive(r.kwargs, r.args, 1)
            \/ Serve
SpecLike == Init /\ [][NextLike]_vars

\* the filter of the request handled
TheFilter == WellFormed(request.args.where)[1]

\* the rows of the request's table whose cell of column c passes Keep
RowsWhere(Keep(_)) ==
    SelectSeq(Tables[request.kwargs.table].rows, LAMBDA row : Keep(row[1]))

\* C11: in the relational adapter, where=col~val keeps a row if and only if
\* the column value contains val ignoring case, and where=col!~val keeps a
\* row if and only if it does not, so that the two filters select
\* complementary sets of rows.
C11_LikeAndNotLikeComplement ==
    Handled =>
        /\ response.error = ""
        /\ response.body.rows =
              IF TheFilter.oper = opLike
              THEN RowsWhere(LAMBDA cell : ContainsIgnoringCase(cell, TheFilter.val))
              ELSE RowsWhere(LAMBDA cell : ~ContainsIgnoringCase(cell, TheFilter.val))

\* c!~B on PostgreSQL has kept a row whose c is b
C11_Witness ==
    /\ Handled
    /\ request.kwargs.url = postgresql
    /\ TheFilter.oper = opNotLike /\ TheFilter.val = <<"B">>
    /\ response.error = ""
    /\ \E r \in 1..Len(response.body.rows) : response.body.rows[r][1] = <<"b">>

\* what does hold: the claim for ~ on both databases and for !~ on SQLite,
\* for every value without the wildcard "_"
C11_HoldsWhereLikeIgnoresCase ==
    Handled /\ "_" \notin Range(TheFilter.val)
    /\ (TheFilter.oper = opLike \/ LikeIgnoresCase(request.kwargs.url)) =>
        /\ response.error = ""
        /\ response.body.rows =
              IF TheFilter.oper = opLike
              THEN RowsWhere(LAMBDA cell : ContainsIgnoringCase(cell, TheFilter.val))
              ELSE RowsWhere(LAMBDA cell : ~ContainsIgnoringCase(cell, TheFilter.val))

(***************************************************************************)
(* SpecEquiv: one request of either adapter, over the lists of filters     *)
(* that use the nine operators                                             *)
(***************************************************************************)
\* c=b c==b c!=b c>a c>=b c<b c<=a c~b c!~B
EquivStrings ==
    {colC \o opEq \o <<"b">>, colC \o opEqEq \o <<"b">>, colC \o opNe \o <<"b">>,
     colC \o opGt \o <<"a">>, colC \o opGe \o <<"b">>, colC \o opLt \o <<"b">>,
     colC \o opLe \o <<"a">>, colC \o opLike \o <<"b">>, colC \o opNotLike \o <<"B">>}

EquivRequests ==
    {[kwargs |-> Kwargs(d, sqlite, "flags"), args |-> [NoArgs EXCEPT !.where = w]] :
        d \in {"sqlalchemy", "blaze"},
        w \in UNION {[1..n -> EquivStrings] : n \in 1..MaxWheres}}

NextEquiv == \/ \E r \in EquivRequests : Arrive(r.kwargs, r.args, 1)
             \/ Serve
SpecEquiv == Init /\ [][NextEquiv]_vars

\* what the other adapter makes of the request handled
OtherAdapter ==
    Result(initialize([request.kwargs EXCEPT
                          !.driver = IF @ = "blaze" THEN "sqlalchemy" ELSE "blaze"]),
           request.q)

\* both adapters fail, or both succeed with the same set of rows
SameAsOtherAdapter ==
    IF response.error # "" THEN OtherAdapter.error # ""
    ELSE /\ OtherAdapter.error = ""
         /\ Range(response.body.rows) = Range(OtherAdapter.rows)

\* C12: for the same table and the same list of where strings, using any of
\* the operators =, ==, !=, >, >=, <, <=, ~, !~, both adapters either both
\* fail or both succeed and return the same set of rows.
C12_AdaptersFilterAlike == Handled => SameAsOtherAdapter

\* the blaze adapter has failed on c~b, which the relational adapter answers
C12_Witness ==
    /\ Handled
    /\ request.kwargs.driver = "blaze"
    /\ request.args.where = <<colC \o opLike \o <<"b">>>>
    /\ response.error = "UnboundLocalError"
    /\ OtherAdapter.error = "" /\ Len(OtherAdapter.rows) > 0

\* what does hold: the claim, for the lists that use neither ~ nor !~
C12_AlikeOnComparisons ==
    Handled /\ (\A k \in 1..Len(WellFormed(request.args.where)) :
                   WellFormed(request.args.where)[k].oper \in BzOpers)
    => SameAsOtherAdapter

(***************************************************************************)
(* SpecSort: one request of either adapter with up to MaxSorts sort        *)
(* parameters                                                              *)
(***************************************************************************)
MaxSorts == 2

\* c c:asc c:desc n n:asc n:desc
SortStrings == {col \o odr : col \in {colC, colN},
                             odr \in {<<>>, <<":">> \o odrAsc, <<":">> \o odrDesc}}

SortRequests ==
    {[kwargs |-> Kwargs(d, sqlite, "flags"), args |-> [NoArgs EXCEPT !.sort = srt]] :
        d \in {"sqlalchemy", "blaze"},
        srt \in UNION {[1..n -> SortStrings] : n \in 1..MaxSorts}}

NextSort == \/ \E r \in SortRequests : Arrive(r.kwargs, r.args, 1)
            \/ Serve
SpecSort == Init /\ [][NextSort]_vars

\* the cell of row r in the column of the sort string
SortCell(r, sort) == r[IndexOf(response.body.cols, partition(sort)[1])]

\* a before b in the column of the sort string, in the string's own direction
BeforeIn(sort, a, b) ==
    LET type == Tables[request.kwargs.table].types[
                    IndexOf(Tables[request.kwargs.table].cols, partition(sort)[1])]
    IN  IF partition(sort)[2] = odrDesc THEN ValLess(type, b, a) ELSE ValLess(type, a, b)

\* r1 has to come before r2: they differ first in a sort column where r1 is
\* before r2 in that column's own direction
MustPrecede(sorts, r1, r2) ==
    \E k \in 1..Len(sorts) :
        /\ \A m \in 1..(k - 1) : SortCell(r1, sorts[m]) = SortCell(r2, sorts[m])
        /\ BeforeIn(sorts[k], SortCell(r1, sorts[k]), SortCell(r2, sorts[k]))

OrderedByOwnDirections ==
    /\ response.error = ""
    /\ \A i \in 1..Len(response.body.rows) : \A j \in 1..(i - 1) :
           ~MustPrecede(request.args.sort, response.body.rows[i], response.body.rows[j])

\* C13: with several sort parameters, on both adapters the result is ordered
\* by the sort columns in request order, each column by its own direction
\* (column:desc descending, column:asc or bare column ascending).
C13_EachColumnItsOwnDirection == Handled => OrderedByOwnDirections

\* sort=c:desc&sort=n has been answered by the array adapter with rows that
\* ascend in c
C13_Witness ==
    /\ Handled
    /\ request.kwargs.driver = "blaze"
    /\ request.args.sort = <<colC \o <<":">> \o odrDesc, colN>>
    /\ response.error = ""
    /\ Len(response.body.rows) = Len(Tables.flags.rows)
    /\ \E i \in 1..Len(response.body.rows) : \E j \in 1..(i - 1) :
           LexLess(response.body.rows[j][1], response.body.rows[i][1])

\* what does hold: the claim on the relational adapter, and on the array
\* adapter when all sort strings have the direction of the last one
C13_HoldsWhenDirectionsAgree ==
    Handled /\ (\/ request.kwargs.driver = "sqlalchemy"
                \/ \A k \in 1..Len(request.args.sort) :
                      (partition(request.args.sort[k])[2] = odrDesc)
                      = (partition(request.args.sort[Len(request.args.sort)])[2] = odrDesc))
    => OrderedByOwnDirections

====
